---- MODULE Spec2Model ----
(***************************************************************************)
(* A model of NoDb (src/src/nodb.rs): the two in-memory maps, the dump     *)
(* policy, and the dump engine (serialize, base64, write temp, rename).    *)
(* Every operation is one action; the file-system calls of a dump are      *)
(* computed one by one and what each leaves at NoDb.path is recorded.      *)
(***************************************************************************)
EXTENDS Integers, Sequences, FiniteSets, TLC

\* ------------------------------------------------------------ bounds
\* longest list an append may produce
MaxLen == 2
\* the clock runs 0..MaxTime
MaxTime == 1
\* Periodic(d) is explored for d in 1..MaxDur
MaxDur == 1
\* number of file-system calls that may fail in one behaviour
MaxFails == 1

\* the keys a caller may use
AllKeys == {"a", "b"}
\* the caller's values: u8 numbers (1 is ASCII in every encoding, 255 is not)
Values == {1, 255}
Codecs == {"Json", "Bin", "Pot"}

VARIABLES
    map,        \* NoDb.map: key -> serialized bytes
    list_map,   \* NoDb.list_map: key -> sequence of serialized bytes
    ser,        \* NoDb.ser: the codec chosen at construction
    policy,     \* NoDb.policy
    last_dump,  \* NoDb.last_dump
    alive,      \* the instance exists (constructed and not yet dropped)
    now,        \* the clock (Instant::now / SystemTime::now)
    fs,         \* the file system: path -> content
    fails,      \* file-system calls that have failed so far
    pc,         \* idle; done: a call has run and not yet returned to its caller;
                \* unwind: a call has panicked
    cur,        \* the call that has run, its locals and what it returns
    dumped,     \* the maps the file at NoDb.path was dumped from, if any
    flushed,    \* a dump of this instance has succeeded
    last_ok,    \* under Periodic: the time of the last dump to NoDb.path that
                \* succeeded, if any
    keys,       \* the keys this caller uses
    stores      \* two more NoDb instances on NoDb.path, each with its map and
                \* the position of its set() inside dump()

vars == <<map, list_map, ser, policy, last_dump, alive, now, fs, fails,
          pc, cur, dumped, flushed, last_ok, keys, stores>>

\* ------------------------------------------------------------ maps
EmptyMap == [k \in {} |-> <<>>]
\* variant: a remove that clears the map
RemoveAll(m, k) == EmptyMap

\* HashMap::remove
Remove(m, k) == [x \in (DOMAIN m) \ {k} |-> m[x]]
\* variant: an insert that leaves an existing entry as it is
InsertIfAbsent(m, k, v) == [x \in (DOMAIN m) \cup {k} |-> IF x \in DOMAIN m THEN m[x] ELSE v]

\* HashMap::insert
Insert(m, k, v) == [x \in (DOMAIN m) \cup {k} |-> IF x = k THEN v ELSE m[x]]

\* variant: a remove that drops the last item
VecRemoveLast(s, pos) == SubSeq(s, 1, Len(s) - 1)
\* variant: a truncate that cuts nothing
VecKeep(s, n) == s

\* Vec::remove(pos) and Vec::insert(pos, x), positions from 0
VecRemove(s, pos) == [i \in 1..(Len(s) - 1) |-> IF i <= pos THEN s[i] ELSE s[i + 1]]
VecInsert(s, pos, x) ==
    [i \in 1..(Len(s) + 1) |-> IF i <= pos THEN s[i]
                               ELSE IF i = pos + 1 THEN x ELSE s[i - 1]]
\* variant: an extend that puts the new items in front
VecPrepend(s, items) == items \o s
\* Vec::extend
VecExtend(s, items) == s \o items
VecTruncate(s, n) == IF n < Len(s) THEN SubSeq(s, 1, n) ELSE s

\* ------------------------------------------------------------ results
Ok(v) == [tag |-> "Ok", val |-> v]
Err(e) == [tag |-> "Err", val |-> e]
Some(v) == [tag |-> "Some", val |-> v]
None == [tag |-> "None", val |-> <<>>]
Unit == <<>>

\* ------------------------------------------------------------ codecs
\* str::from_utf8: is the byte sequence well-formed UTF-8
RECURSIVE IsUtf8(_)
IsUtf8(b) ==
    IF Len(b) = 0 THEN TRUE
    ELSE LET c == b[1]
             cont(i) == i <= Len(b) /\ b[i] >= 128 /\ b[i] <= 191
         IN  IF c < 128 THEN IsUtf8(Tail(b))
             ELSE IF c >= 194 /\ c <= 223
                  THEN cont(2) /\ IsUtf8(SubSeq(b, 3, Len(b)))
             ELSE IF c >= 224 /\ c <= 239
                  THEN /\ cont(2) /\ cont(3)
                       /\ (c = 224 => b[2] >= 160)
                       /\ (c = 237 => b[2] <= 159)
                       /\ IsUtf8(SubSeq(b, 4, Len(b)))
             ELSE IF c >= 240 /\ c <= 244
                  THEN /\ cont(2) /\ cont(3) /\ cont(4)
                       /\ (c = 240 => b[2] >= 144)
                       /\ (c = 244 => b[2] <= 143)
                       /\ IsUtf8(SubSeq(b, 5, Len(b)))
             ELSE FALSE

\* the decimal digits of n, as ASCII bytes
RECURSIVE Digits(_)
Digits(n) == IF n < 10 THEN <<48 + n>> ELSE Append(Digits(n \div 10), 48 + (n % 10))

\* serialize_data on a u8. encodable = FALSE stands for a value of a type the
\* format cannot represent (to_string / serialize / to_vec return Err).
SerializeData(s, v, encodable) ==
    IF ~encodable THEN Err("encode")
    ELSE CASE s = "Json" -> Ok(Digits(v))
           [] s = "Bin"  -> Ok(<<v>>)
           [] s = "Pot"  -> Ok(<<80, 111, 116, 0, 64, v>>)

\* the types a caller may ask a value back as
Types == {"u8", "String"}

\* the number a sequence of ASCII digits writes
RECURSIVE Number(_)
Number(b) == IF Len(b) = 0 THEN 0 ELSE 10 * Number(SubSeq(b, 1, Len(b) - 1)) + (b[Len(b)] - 48)

\* serde_json::from_str: a u8 is 1..3 digits with no leading zero, at most 255;
\* a String is text between double quotes
JsonDecode(ty, b) ==
    IF ty = "u8"
    THEN IF /\ Len(b) \in 1..3
            /\ \A i \in 1..Len(b) : b[i] \in 48..57
            /\ (Len(b) > 1 => b[1] # 48)
            /\ Number(b) <= 255
         THEN Some(Number(b)) ELSE None
    ELSE IF Len(b) >= 2 /\ b[1] = 34 /\ b[Len(b)] = 34 /\ IsUtf8(b)
         THEN Some(SubSeq(b, 2, Len(b) - 1)) ELSE None

\* bincode::deserialize: a u8 is the first byte; a String is an 8-byte
\* little-endian length and that many bytes of UTF-8
BinDecode(ty, b) ==
    IF ty = "u8"
    THEN IF Len(b) >= 1 THEN Some(b[1]) ELSE None
    ELSE IF /\ Len(b) >= 8
            /\ \A i \in 2..8 : b[i] = 0
            /\ Len(b) >= 8 + b[1]
            /\ IsUtf8(SubSeq(b, 9, 8 + b[1]))
         THEN Some(SubSeq(b, 9, 8 + b[1])) ELSE None

\* pot::from_slice: the header "Pot", version 0, then one atom: 0x40 and a
\* byte for a u8, 0xE0 + length and the bytes for a String
PotDecode(ty, b) ==
    IF Len(b) >= 5 /\ SubSeq(b, 1, 4) = <<80, 111, 116, 0>>
    THEN IF ty = "u8"
         THEN IF Len(b) = 6 /\ b[5] = 64 THEN Some(b[6]) ELSE None
         ELSE IF b[5] >= 224 /\ b[5] < 240 /\ Len(b) = 5 + (b[5] - 224)
                 /\ IsUtf8(SubSeq(b, 6, Len(b)))
              THEN Some(SubSeq(b, 6, Len(b))) ELSE None
    ELSE None

\* deserialize_data::<V>: None when the bytes are not a V in this format
DeserializeAs(s, ty, b) ==
    CASE s = "Json" -> JsonDecode(ty, b)
      [] s = "Bin"  -> BinDecode(ty, b)
      [] s = "Pot"  -> PotDecode(ty, b)

\* deserialize_data as a u8
DeserializeData(s, b) == DeserializeAs(s, "u8", b)

\* Json and Pot pass every payload through from_utf8 into a string
TextCodec(s) == s \in {"Json", "Pot"}

\* from_utf8(x).unwrap_or(""), item by item
ListAsText(list) == [i \in 1..Len(list) |-> IF IsUtf8(list[i]) THEN list[i] ELSE <<>>]

\* serialize_db: the payload as the structure the format encodes
SerializeDb(s, m, l) ==
    IF TextCodec(s)
    THEN IF \E k \in DOMAIN m : ~IsUtf8(m[k])
         THEN Err("utf8")
         ELSE Ok([fmt |-> s, map |-> m,
                  list_map |-> [k \in DOMAIN l |-> ListAsText(l[k])]])
    ELSE Ok([fmt |-> s, map |-> m, list_map |-> l])

\* deserialized_db: fails on a payload of another format
DeserializedDb(s, data) ==
    IF data.fmt = s
    THEN Ok([map |-> data.map, list_map |-> data.list_map])
    ELSE Err("decode")

\* ------------------------------------------------------------ files
NoFile == [kind |-> "none"]
\* a file that was created (truncated) and not written to its end
Partial == [kind |-> "partial"]
\* B64.encrypt: the base64 text of the payload
Encrypt(data) == [kind |-> "b64", data |-> data]
\* B64.decrypt: fails on anything that is not base64 text
Decrypt(content) ==
    IF content.kind = "b64" THEN Ok(content.data) ELSE Err("base64")

\* a temp file that a failed dump has left behind, fully written
Stale == [kind |-> "stale"]

\* NoDb.path, and the temp files "<path>.tmp.<secs>" beside it
DestPath == [temp |-> FALSE, secs |-> 0]
TmpPath(secs) == [temp |-> TRUE, secs |-> secs]
Paths == {DestPath} \cup {TmpPath(t) : t \in 0..MaxTime}
NoFiles == [p \in Paths |-> NoFile]
\* the content of the file at NoDb.path
file == fs[DestPath]

\* ------------------------------------------------------------ policies
Never == [kind |-> "Never", dur |-> 0]
Auto == [kind |-> "Auto", dur |-> 0]
OnCall == [kind |-> "OnCall", dur |-> 0]
Periodic(d) == [kind |-> "Periodic", dur |-> d]
Policies == {Never, Auto, OnCall} \cup {Periodic(d) : d \in 1..MaxDur}

\* ------------------------------------------------------------ calls
\* How the file-system calls of one dump end: all succeed, or the first to
\* fail is the creation of the temp file, the write into it, or the rename.
Outcomes == {"ok", "create", "write", "rename"}

\* The record of a call: its arguments, its locals, what it returned, and the
\* state it was made in.
CallRecord(op, key, m, l, f, e) ==
    [op |-> op, key |-> key, phase |-> 0,
     input |-> <<>>,        \* the caller's value(s)
     ty |-> "u8",           \* the type the caller asks the result as
     arg |-> <<>>,          \* the serialized argument(s)
     saved |-> None,        \* orig_val / val / list / res: what a rollback restores
     pos |-> 0, orig_len |-> 0, rm_map |-> FALSE,
     data |-> NoFile,       \* encrypted_data of the last dump
     res |-> None,          \* the value returned
     pre_map |-> m, pre_list |-> l, pre_file |-> f,
     elapsed |-> e,         \* time since last_dump when the call was made
     obs |-> <<f>>,         \* content of NoDb.path before and after each
                            \* file-system call of the last dump
     flushes |-> 0,         \* dumps begun by this call
     failed |-> FALSE,      \* a dump of this call returned an error
     wrote |-> FALSE]       \* the last dump of this call renamed its temp file

NewCall(op, key) ==
    CallRecord(op, key, map, list_map, file, now - last_dump)
\* no call has run
NoCall == CallRecord("", "", EmptyMap, EmptyMap, NoFile, 0)

\* the store and the file system, as a step of a call leaves them
Here == [map |-> map, list_map |-> list_map, last_dump |-> last_dump,
         fs |-> fs, fails |-> fails, dumped |-> dumped, flushed |-> flushed,
         last_ok |-> last_ok]
\* the call has run to its return
Done(c, r, st) ==
    [need |-> FALSE, cur |-> [c EXCEPT !.res = r], st |-> st, alive |-> c.op # "drop"]
\* the call has reached the file-system calls of a dump
Pending(c, st) == [need |-> TRUE, cur |-> c, st |-> st, alive |-> TRUE]
Apply(o) ==
    /\ o.st.fails <= MaxFails
    /\ pc' = "done"
    /\ cur' = o.cur
    /\ map' = o.st.map
    /\ list_map' = o.st.list_map
    /\ last_dump' = o.st.last_dump
    /\ fs' = o.st.fs
    /\ fails' = o.st.fails
    /\ dumped' = o.st.dumped
    /\ flushed' = o.st.flushed
    /\ last_ok' = o.st.last_ok
    /\ alive' = o.alive

\* dumpdb: does the policy ask for a dump now
ShouldDump(ld) ==
    CASE policy.kind = "Auto" -> TRUE
      [] policy.kind = "Periodic" -> now - ld >= policy.dur
      [] OTHER -> FALSE

\* variant: a dump() without the check for policy Never
DumpRegardless == FALSE

\* dump(): nothing is written under policy Never
DumpSuppressed == policy.kind = "Never"

\* variant: a Drop that dumps under every policy
DropAlwaysDumps == TRUE

\* Drop: the policies under which teardown dumps
DropDumps == policy.kind \notin {"Never", "OnCall"}

\* variant: a dump() that writes straight into NoDb.path
WriteInPlace == DestPath
\* variant: a temp name with no time in it
TmpFixed == TmpPath(0)

\* dump(): the name of the temp file
TmpName == TmpPath(now)

\* write(&tmp, ..): File::create truncates, write_all fills
Created(f, tmp) == [f EXCEPT ![tmp] = Partial]
Written(f, tmp, bytes) == [f EXCEPT ![tmp] = bytes]
\* rename(&tmp, &self.path): the content moves, the temp name is gone
Renamed(f, tmp) == [f EXCEPT ![DestPath] = f[tmp], ![tmp] = NoFile]
\* the dump has returned: what is left of its temp file is never read again
Left(f, tmp) == [f EXCEPT ![tmp] = IF @.kind = "b64" THEN Stale ELSE @]

\* dump(), lines 137-138: the file system after each call, up to the first
\* that fails
DumpSteps(f, tmp, bytes, outcome) ==
    LET f1 == Created(f, tmp)
        f2 == Written(f1, tmp, bytes)
        f3 == Renamed(f2, tmp)
    IN  CASE outcome = "create" -> <<f>>
          [] outcome = "write"  -> <<f, f1>>
          [] outcome = "rename" -> <<f, f1, f2>>
          [] outcome = "ok"     -> <<f, f1, f2, f3>>

\* variant: a set that leaves the list entry in place
SetKeepList(l, key) == l

\* set: the list entry under the key goes first
SetRemoveList(l, key) == IF key \in DOMAIN l THEN Remove(l, key) ELSE l

\* variant: a set that keeps the new value when the dump failed
SetNoRollback(c, m) == m

\* set: undo of the insert when the dump failed
SetRollback(c, m) ==
    IF c.saved.tag = "Some" THEN Insert(m, c.key, c.saved.val) ELSE Remove(m, c.key)

\* variant: an lcreate that leaves the scalar entry in place
LcreateKeepScalar(m, name) == m

\* lcreate: the scalar entry under the name goes first
LcreateRemoveScalar(m, name) == IF name \in DOMAIN m THEN Remove(m, name) ELSE m

\* variant: the position of the last element equal to x
PositionLast(s, x) ==
    IF \E i \in 1..Len(s) : s[i] = x
    THEN (CHOOSE i \in 1..Len(s) : s[i] = x /\ \A j \in (i + 1)..Len(s) : s[j] # x) - 1
    ELSE 0 - 1

\* position of the first element equal to x (from 0), or -1
Position(s, x) ==
    IF \E i \in 1..Len(s) : s[i] = x
    THEN (CHOOSE i \in 1..Len(s) : s[i] = x /\ \A j \in 1..(i - 1) : s[j] # x) - 1
    ELSE 0 - 1

RECURSIVE Finish(_, _, _), DumpDb(_, _), Dump(_, _), RemList(_, _)

\* variant: a rem whose list removal makes no policy check of its own
RemListUnchecked(c, st) ==
    IF c.key \in DOMAIN st.list_map
    THEN Done([c EXCEPT !.phase = 2], Ok(TRUE),
              [st EXCEPT !.list_map = Remove(st.list_map, c.key)])
    ELSE Done(c, Ok(c.rm_map), st)

\* rem, second half: the list map
RemList(c, st) ==
    IF c.key \in DOMAIN st.list_map
    THEN DumpDb([c EXCEPT !.phase = 2, !.saved = Some(st.list_map[c.key])],
                [st EXCEPT !.list_map = Remove(st.list_map, c.key)])
    ELSE Done(c, Ok(c.rm_map), st)

\* what each operation does with the result r of its dumpdb() / dump()
Finish(c, r, st) ==
    LET ok == r.tag = "Ok" IN
    CASE c.op = "set" ->
           IF ok THEN Done(c, Ok(Unit), st)
           ELSE Done(c, r, [st EXCEPT !.map = SetRollback(c, st.map)])
      [] c.op = "rem" /\ c.phase = 1 ->
           IF ok THEN RemList([c EXCEPT !.rm_map = TRUE], st)
           ELSE Done(c, r, [st EXCEPT !.map = Insert(st.map, c.key, c.saved.val)])
      [] c.op = "rem" /\ c.phase = 2 ->
           IF ok THEN Done(c, Ok(TRUE), st)
           ELSE Done(c, r, [st EXCEPT !.list_map = Insert(st.list_map, c.key, c.saved.val)])
      [] c.op = "lcreate" ->
           IF ok THEN Done(c, Ok("NoDbExt"), st) ELSE Done(c, r, st)
      [] c.op = "lextend" ->
           IF ok THEN Done(c, Some("NoDbExt"), st)
           ELSE Done(c, None,
                     [st EXCEPT !.list_map[c.key] = VecTruncate(@, c.orig_len)])
      [] c.op = "lrem_list" ->
           IF ok THEN Done(c, Ok(c.orig_len), st)
           ELSE Done(c, r, [st EXCEPT !.list_map = Insert(st.list_map, c.key, c.saved.val)])
      [] c.op = "lpop" ->
           IF ok THEN Done(c, DeserializeAs(ser, c.ty, c.saved.val), st)
           ELSE Done(c, None,
                     [st EXCEPT !.list_map[c.key] = VecInsert(@, c.pos, c.saved.val)])
      [] c.op = "lrem_value" ->
           IF ok THEN Done(c, Ok(TRUE), st)
           ELSE Done(c, r, [st EXCEPT !.list_map[c.key] = VecInsert(@, c.pos, c.arg)])
      [] c.op = "dump" -> Done(c, r, st)
      [] c.op = "drop" -> Done(c, Ok(Unit), st)

\* dump(), lines 123-135: up to the file-system calls
Dump(c, st) ==
    IF DumpSuppressed THEN Finish(c, Ok(Unit), st)
    ELSE LET data == SerializeDb(ser, st.map, st.list_map)
             c1 == [c EXCEPT !.flushes = @ + 1, !.wrote = FALSE,
                             !.obs = <<st.fs[DestPath]>>]
         IN  IF data.tag = "Err"
             THEN Finish([c1 EXCEPT !.failed = TRUE], data, st)
             ELSE Pending([c1 EXCEPT !.data = Encrypt(data.val)], st)

\* variant: a dump() that stamps last_dump under every policy
StampAlways(ld) == now
\* variant: a dump() that never stamps last_dump
StampNever(ld) == ld

\* dump(), lines 139-141: last_dump after a dump that succeeded
Stamp(ld) == IF policy.kind = "Periodic" THEN now ELSE ld

\* dump(), lines 137-142, and the rest of the operation that called it
Resume(o, outcome) ==
    LET c == o.cur
        st == o.st
        steps == DumpSteps(st.fs, TmpName, c.data, outcome)
        c1 == [c EXCEPT !.obs = [i \in 1..Len(steps) |-> steps[i][DestPath]]]
        f == Left(steps[Len(steps)], TmpName)
    IN  IF outcome = "ok"
        THEN Finish([c1 EXCEPT !.wrote = TRUE], Ok(Unit),
                    [st EXCEPT !.fs = f,
                               !.last_dump = Stamp(@),
                               !.dumped = Some([map |-> st.map, list_map |-> st.list_map]),
                               !.flushed = TRUE,
                               !.last_ok = IF policy.kind = "Periodic" THEN Some(now) ELSE @])
        ELSE Finish([c1 EXCEPT !.failed = TRUE], Err("io"),
                    [st EXCEPT !.fs = f, !.fails = @ + 1])

\* dumpdb(): the policy check after a change
DumpDb(c, st) ==
    IF ShouldDump(st.last_dump) THEN Dump(c, st) ELSE Finish(c, Ok(Unit), st)

\* ------------------------------------------------------------ operations
SetCall(key, v, encodable) ==
    LET c == [NewCall("set", key) EXCEPT !.input = v]
        l1 == SetRemoveList(list_map, key)
        data == SerializeData(ser, v, encodable)
        orig_val == IF key \in DOMAIN map THEN Some(map[key]) ELSE None
    IN  IF data.tag = "Err"
        THEN Done(c, data, [Here EXCEPT !.list_map = l1])
        ELSE DumpDb([c EXCEPT !.arg = data.val, !.saved = orig_val],
                    [Here EXCEPT !.list_map = l1, !.map = Insert(map, key, data.val)])

RemCall(key) ==
    LET c == NewCall("rem", key)
    IN  IF key \in DOMAIN map
        THEN DumpDb([c EXCEPT !.phase = 1, !.saved = Some(map[key])],
                    [Here EXCEPT !.map = Remove(map, key)])
        ELSE RemList(c, Here)

LcreateCall(name) ==
    DumpDb(NewCall("lcreate", name),
           [Here EXCEPT !.map = LcreateRemoveScalar(map, name),
                        !.list_map = Insert(list_map, name, <<>>)])

\* a serialize_data(v).unwrap() on an Err panics before the list is touched
Panic(c) == [need |-> FALSE, cur |-> [c EXCEPT !.res = [tag |-> "Panic", val |-> <<>>]],
             st |-> Here, alive |-> TRUE]

LextendCall(name, seq, encodable) ==
    LET c == [NewCall("lextend", name) EXCEPT !.input = seq]
    IN  IF name \in DOMAIN list_map
        THEN LET list == list_map[name]
                 serialized == [i \in 1..Len(seq) |-> SerializeData(ser, seq[i], encodable)]
             IN  IF \E i \in 1..Len(seq) : serialized[i].tag = "Err"
                 THEN Panic(c)
                 ELSE LET items == [i \in 1..Len(seq) |-> serialized[i].val]
                      IN  DumpDb([c EXCEPT !.orig_len = Len(list), !.arg = items],
                                 [Here EXCEPT !.list_map[name] = VecExtend(list, items)])
        ELSE Done(c, None, Here)

\* list_add / list_extend, which NoDbExt calls on the store: the store's own
\* ladd / lextend under the list's name
ListExtend(name, seq, encodable) == LextendCall(name, seq, encodable)

\* variant: an llen that reports every list as empty
LlenZero(name) == 0

\* exists, lexists, llen
Exists(key) == key \in DOMAIN map \/ key \in DOMAIN list_map
Lexists(name) == name \in DOMAIN list_map
Llen(name) == IF name \in DOMAIN list_map THEN Len(list_map[name]) ELSE 0

\* lrem_list: res is llen(name), read before the list is removed
LremListCall(name) ==
    LET c == NewCall("lrem_list", name)
        res == Llen(name)
    IN  IF name \in DOMAIN list_map
        THEN DumpDb([c EXCEPT !.orig_len = res,
                              !.saved = Some(list_map[name])],
                    [Here EXCEPT !.list_map = Remove(list_map, name)])
        ELSE Done(c, Ok(res), Here)

LpopCall(name, pos, ty) ==
    LET c == [NewCall("lpop", name) EXCEPT !.pos = pos, !.ty = ty]
    IN  IF name \in DOMAIN list_map /\ pos < Len(list_map[name])
        THEN DumpDb([c EXCEPT !.saved = Some(list_map[name][pos + 1])],
                    [Here EXCEPT !.list_map[name] = VecRemove(@, pos)])
        ELSE Done(c, None, Here)

LremValueCall(name, v, encodable) ==
    LET c == [NewCall("lrem_value", name) EXCEPT !.input = v]
    IN  IF name \in DOMAIN list_map
        THEN LET serialized_value == SerializeData(ser, v, encodable)
                 pos == Position(list_map[name], serialized_value.val)
             IN  IF serialized_value.tag = "Err" THEN Done(c, serialized_value, Here)
                 ELSE IF pos >= 0
                 THEN DumpDb([c EXCEPT !.pos = pos, !.arg = serialized_value.val],
                             [Here EXCEPT !.list_map[name] = VecRemove(@, pos)])
                 ELSE Done(c, Ok(FALSE), Here)
        ELSE Done(c, Ok(FALSE), Here)

DropCall ==
    IF DropDumps THEN Dump(NewCall("drop", ""), Here)
    ELSE Done(NewCall("drop", ""), Ok(Unit), Here)

\* get: the value under the key, decoded as a u8
Get(key) == IF key \in DOMAIN map THEN DeserializeData(ser, map[key]) ELSE None

\* lget: the item at the position, decoded as a u8
Lget(name, pos) ==
    IF name \in DOMAIN list_map /\ pos < Len(list_map[name])
    THEN DeserializeData(ser, list_map[name][pos + 1])
    ELSE None

\* variant: a get that hands back the stored bytes undecoded
GetRaw(key, ty) == IF key \in DOMAIN map THEN Some(map[key]) ELSE None

\* get::<V> and lget::<V>: the value decoded as the type the caller names
GetAs(key, ty) == IF key \in DOMAIN map THEN DeserializeAs(ser, ty, map[key]) ELSE None
LgetAs(name, pos, ty) ==
    IF name \in DOMAIN list_map /\ pos < Len(list_map[name])
    THEN DeserializeAs(ser, ty, list_map[name][pos + 1])
    ELSE None

\* the orders in which a HashMap may hand out its keys
Orders(S) ==
    {s \in [1..Cardinality(S) -> S] : \A i, j \in 1..Cardinality(S) : i # j => s[i] # s[j]}

\* variant: a get_all that lists the scalar keys only
GetAllScalars == Orders(DOMAIN map)

\* get_all: the keys of map, then the keys of list_map; one of these sequences
GetAll == {s1 \o s2 : s1 \in Orders(DOMAIN map), s2 \in Orders(DOMAIN list_map)}

\* total_keys
TotalKeys == Cardinality(DOMAIN map) + Cardinality(DOMAIN list_map)

\* load: read, decrypt, deserialized_db
LoadStore(content, s) ==
    IF content.kind = "none" THEN Err("io")
    ELSE LET decrypted_content == Decrypt(content)
         IN  IF decrypted_content.tag = "Err" THEN decrypted_content
             ELSE DeserializedDb(s, decrypted_content.val)

\* ------------------------------------------------------------ actions
Idle == pc = "idle" /\ alive
Frame == UNCHANGED <<ser, policy, now, keys, stores>>

\* A call runs to its return; each dump it makes (rem may make two) ends in
\* one of the Outcomes.
Call(o) ==
    IF ~o.need THEN Apply(o)
    ELSE \E out1 \in Outcomes : \E o1 \in {Resume(o, out1)} :
            IF ~o1.need THEN Apply(o1)
            ELSE \E out2 \in Outcomes : Apply(Resume(o1, out2))

Set ==
    /\ Idle
    /\ \E key \in keys, v \in Values, encodable \in BOOLEAN :
          Call(SetCall(key, v, encodable))
    /\ Frame

Rem == Idle /\ (\E key \in keys : Call(RemCall(key))) /\ Frame

Lcreate == Idle /\ (\E name \in keys : Call(LcreateCall(name))) /\ Frame

\* ladd(name, v) is lextend(name, [v])
Lextend ==
    /\ Idle
    /\ \E name \in keys, n \in 1..MaxLen, encodable \in BOOLEAN :
       \E seq \in [1..n -> Values] :
          /\ name \in DOMAIN list_map => Len(list_map[name]) + n <= MaxLen
          /\ Call(LextendCall(name, seq, encodable))
    /\ Frame

\* the caller holds the NoDbExt that the call has just returned
HasHandle ==
    /\ pc = "done" /\ alive
    /\ \/ cur.op = "lcreate" /\ cur.res.tag = "Ok"
       \/ cur.op = "lextend" /\ cur.res.tag = "Some"

\* NoDbExt::ladd / NoDbExt::lextend on the handle
ExtLextend ==
    /\ HasHandle
    /\ \E n \in 1..MaxLen, encodable \in BOOLEAN :
       \E seq \in [1..n -> Values] :
          /\ Len(list_map[cur.key]) + n <= MaxLen
          /\ Call(ListExtend(cur.key, seq, encodable))
    /\ Frame

LremList == Idle /\ (\E name \in keys : Call(LremListCall(name))) /\ Frame

Lpop ==
    /\ Idle
    /\ \E name \in keys, pos \in 0..MaxLen, ty \in Types : Call(LpopCall(name, pos, ty))
    /\ Frame

LremValue ==
    /\ Idle
    /\ \E name \in keys, v \in Values, encodable \in BOOLEAN :
          Call(LremValueCall(name, v, encodable))
    /\ Frame

\* a call of a method that takes &self: the result, and the state as it is
Observe(c, r) == Apply([cur |-> [c EXCEPT !.res = r], st |-> Here, alive |-> TRUE])

GetCall ==
    /\ Idle
    /\ \E key \in keys, ty \in Types :
          Observe([NewCall("get", key) EXCEPT !.ty = ty], GetAs(key, ty))
    /\ Frame

LgetCall ==
    /\ Idle
    /\ \E name \in keys, pos \in 0..MaxLen, ty \in Types :
          Observe([NewCall("lget", name) EXCEPT !.pos = pos, !.ty = ty],
                  LgetAs(name, pos, ty))
    /\ Frame

ExistsCall == Idle /\ (\E key \in keys : Observe(NewCall("exists", key), Ok(Exists(key)))) /\ Frame

LexistsCall == Idle /\ (\E key \in keys : Observe(NewCall("lexists", key), Ok(Lexists(key)))) /\ Frame

LlenCall == Idle /\ (\E key \in keys : Observe(NewCall("llen", key), Ok(Llen(key)))) /\ Frame

GetAllCall == Idle /\ (\E all \in GetAll : Observe(NewCall("get_all", ""), Ok(all))) /\ Frame

TotalKeysCall == Idle /\ Observe(NewCall("total_keys", ""), Ok(TotalKeys)) /\ Frame

\* the caller's dump()
DumpCall == Idle /\ Call(Dump(NewCall("dump", ""), Here)) /\ Frame

\* the instance goes out of scope, or a panic unwinds through its owner
Drop == alive /\ pc \in {"idle", "unwind"} /\ Call(DropCall) /\ Frame

\* a panic in a build that aborts: no destructor runs
Abort ==
    /\ pc = "unwind"
    /\ pc' = "idle"
    /\ alive' = FALSE
    /\ map' = EmptyMap
    /\ list_map' = EmptyMap
    /\ UNCHANGED <<ser, policy, last_dump, now, fs, fails, cur, dumped, flushed, last_ok, keys, stores>>

\* variant: a new that starts from what the file at the path holds
NewFromFile(st) ==
    LET r == LoadStore(st.fs[DestPath], ser)
    IN  [st EXCEPT !.map = IF r.tag = "Ok" THEN r.val.map ELSE EmptyMap,
                   !.list_map = IF r.tag = "Ok" THEN r.val.list_map ELSE EmptyMap,
                   !.last_dump = now, !.flushed = FALSE]

\* new, lines 70-77: the struct it returns; the file system is left alone
NewStore(st) ==
    [st EXCEPT !.map = EmptyMap, !.list_map = EmptyMap,
               !.last_dump = now, !.flushed = FALSE]

\* NoDb::new on the same path
New ==
    /\ pc = "idle"
    /\ Apply([cur |-> [NewCall("new", "") EXCEPT !.res = Ok(Unit)],
              st |-> NewStore(Here),
              alive |-> TRUE])
    /\ Frame

\* NoDb::load on the same path, with the same policy and format
Load ==
    /\ pc = "idle"
    /\ \E r \in {LoadStore(file, ser)} :
          Apply([cur |-> [NewCall("load", "") EXCEPT !.res = r],
                 st |-> [Here EXCEPT
                           !.map = IF r.tag = "Ok" THEN r.val.map ELSE EmptyMap,
                           !.list_map = IF r.tag = "Ok" THEN r.val.list_map ELSE EmptyMap,
                           !.last_dump = now, !.flushed = FALSE],
                 alive |-> r.tag = "Ok"])
    /\ Frame

\* the call has returned to its caller: its locals are gone, and so is the
\* memory of an instance that was dropped
Return ==
    /\ pc = "done"
    /\ pc' = IF cur.res.tag = "Panic" THEN "unwind" ELSE "idle"
    /\ cur' = NoCall
    /\ map' = IF alive THEN map ELSE EmptyMap
    /\ list_map' = IF alive THEN list_map ELSE EmptyMap
    /\ UNCHANGED <<ser, policy, last_dump, alive, now, fs, fails, dumped, flushed, last_ok, keys, stores>>

\* time passes between calls
Tick ==
    /\ pc = "idle"
    /\ now < MaxTime
    /\ now' = now + 1
    /\ UNCHANGED <<map, list_map, ser, policy, last_dump, alive, fs, fails, pc, cur,
                   dumped, flushed, last_ok, keys, stores>>

\* The other instances on NoDb.path, in other threads or processes.
Stores == {1, 2}
\* an instance between calls: its map, and no dump in progress
Resting(m) == [at |-> "idle", map |-> m, saved |-> None, key |-> "",
               tmp |-> DestPath, secs |-> 0, data |-> NoFile, res |-> None,
               ino |-> "none",      \* where the file its handle is open on is
               shared |-> FALSE]    \* a dump of it overlapped a dump of the
                                    \* other instance named in the same second
NoStores == [i \in Stores |-> Resting(EmptyMap)]
\* instance i is inside dump(), between naming its temp file and the return
\* of rename
Dumping(i) == stores[i].at # "idle"

\* the state NoDb::new returns in
Fresh ==
    /\ stores = NoStores
    /\ map = EmptyMap
    /\ list_map = EmptyMap
    /\ ser \in Codecs
    /\ policy \in Policies
    /\ now = 0
    /\ last_dump = 0
    /\ alive = TRUE
    /\ dumped = None
    /\ flushed = FALSE
    /\ last_ok = None
    /\ fails = 0
    /\ pc = "idle"
    /\ cur = NoCall

\* one key, every policy, every codec, on a path where no file exists yet
Init == Fresh /\ fs = NoFiles /\ keys = {"a"}

Next ==
    \/ Set \/ Rem \/ Lcreate \/ Lextend \/ ExtLextend \/ LremList \/ Lpop \/ LremValue
    \/ DumpCall \/ Drop \/ Abort
    \/ New \/ Load \/ Return \/ Tick

Spec == Init /\ [][Next]_vars

\* A file that an earlier run of the program left at NoDb.path: the dump of a
\* store holding one scalar.
Earlier(s) ==
    Encrypt(SerializeDb(s, [k \in {"a"} |-> SerializeData(s, 1, TRUE).val], EmptyMap).val)

\* policy Never, two keys, with or without a file at NoDb.path
InitNever ==
    /\ Fresh
    /\ policy = Never
    /\ fs \in {NoFiles, [NoFiles EXCEPT ![DestPath] = Earlier(ser)]}
    /\ keys = AllKeys

SpecNever == InitNever /\ [][Next]_vars

\* policy Auto, format Json, two keys, on a path where no file exists yet
InitTwoKeys ==
    /\ Fresh
    /\ policy = Auto
    /\ ser = "Json"
    /\ fs = NoFiles
    /\ keys = AllKeys

SpecTwoKeys == InitTwoKeys /\ [][Next]_vars

\* The list an earlier run of the program left in the file at NoDb.path: three
\* items, the first and the last equal.
EarlierList(s) ==
    [k \in {"a"} |-> << SerializeData(s, 1, TRUE).val,
                        SerializeData(s, 255, TRUE).val,
                        SerializeData(s, 1, TRUE).val >>]

\* the store NoDb::load returns from that file: policy Auto, format Json or Bin
InitLoaded ==
    /\ ser \in {"Json", "Bin"}
    /\ policy = Auto
    /\ fs = [NoFiles EXCEPT ![DestPath] = Encrypt(SerializeDb(ser, EmptyMap, EarlierList(ser)).val)]
    /\ LoadStore(file, ser).tag = "Ok"
    /\ map = LoadStore(file, ser).val.map
    /\ list_map = LoadStore(file, ser).val.list_map
    /\ now = 0
    /\ last_dump = 0
    /\ alive = TRUE
    /\ dumped = Some([map |-> EmptyMap, list_map |-> EarlierList(ser)])
    /\ flushed = FALSE
    /\ last_ok = None
    /\ fails = 0
    /\ pc = "idle"
    /\ cur = NoCall
    /\ keys = {"a"}
    /\ stores = NoStores

SpecLoaded == InitLoaded /\ [][Next]_vars

\* A file at NoDb.path that holds the key "a" in both maps.
BothFile(s) ==
    Encrypt(SerializeDb(s, [k \in {"a"} |-> SerializeData(s, 1, TRUE).val],
                           [k \in {"a"} |-> << SerializeData(s, 1, TRUE).val >>]).val)

\* policy OnCall, two keys; the store is either new, or loaded from a file
\* that holds "a" in both maps
InitReads ==
    /\ ser \in Codecs
    /\ policy = OnCall
    /\ \/ fs = NoFiles /\ map = EmptyMap /\ list_map = EmptyMap /\ dumped = None
       \/ /\ fs = [NoFiles EXCEPT ![DestPath] = BothFile(ser)]
          /\ LoadStore(file, ser).tag = "Ok"
          /\ map = LoadStore(file, ser).val.map
          /\ list_map = LoadStore(file, ser).val.list_map
          /\ dumped = Some([map |-> map, list_map |-> list_map])
    /\ now = 0
    /\ last_dump = 0
    /\ alive = TRUE
    /\ flushed = FALSE
    /\ last_ok = None
    /\ fails = 0
    /\ pc = "idle"
    /\ cur = NoCall
    /\ keys = AllKeys
    /\ stores = NoStores

\* format Json, policy Auto or Periodic, one key; the store is loaded from a
\* file that holds the key in both maps
InitBoth ==
    /\ ser = "Json"
    /\ policy \in {Auto, Periodic(1)}
    /\ fs = [NoFiles EXCEPT ![DestPath] = BothFile(ser)]
    /\ LoadStore(file, ser).tag = "Ok"
    /\ map = LoadStore(file, ser).val.map
    /\ list_map = LoadStore(file, ser).val.list_map
    /\ dumped = Some([map |-> map, list_map |-> list_map])
    /\ now = 0
    /\ last_dump = 0
    /\ alive = TRUE
    /\ flushed = FALSE
    /\ last_ok = None
    /\ fails = 0
    /\ pc = "idle"
    /\ cur = NoCall
    /\ keys = {"a"}
    /\ stores = NoStores

SpecBoth == InitBoth /\ [][Next]_vars

\* policy Periodic(1), format Json, one key: a store that NoDb::new returned
\* one second before the clock of the model starts, nothing done with it yet
InitPeriodic ==
    /\ policy = Periodic(1)
    /\ ser = "Json"
    /\ map = EmptyMap
    /\ list_map = EmptyMap
    /\ now = 0
    /\ last_dump = 0 - 1
    /\ alive = TRUE
    /\ dumped = None
    /\ flushed = FALSE
    /\ last_ok = None
    /\ fails = 0
    /\ pc = "idle"
    /\ cur = NoCall
    /\ fs = NoFiles
    /\ keys = {"a"}
    /\ stores = NoStores

SpecPeriodic == InitPeriodic /\ [][Next]_vars

\* the operations that only read, between the writes that give the two maps
\* every shape they can have
NextReads ==
    \/ Set \/ Rem \/ Lcreate \/ Lextend \/ Drop \/ Abort \/ New \/ Return
    \/ GetCall \/ LgetCall \/ ExistsCall \/ LexistsCall \/ LlenCall
    \/ GetAllCall \/ TotalKeysCall

SpecReads == InitReads /\ [][NextReads]_vars

\* ------------------------------------------------------------ two instances
\* set(key, v) of instance i, policy Auto, one file-system call at a time. The
\* instances share the path, the file system and the clock, nothing else.

\* the length of a payload: what its keys and values add to the text
RECURSIVE SumLen(_, _)
SumLen(m, S) ==
    IF S = {} THEN 0
    ELSE LET k == CHOOSE x \in S : TRUE IN 1 + Len(m[k]) + SumLen(m, S \ {k})
Size(content) ==
    CASE content.kind = "b64" -> SumLen(content.data.map, DOMAIN content.data.map)
      [] content.kind = "mixed" -> content.size
      [] OTHER -> 0

\* the start of one payload and, after it, the end of a longer one
Mixed(n) == [kind |-> "mixed", size |-> n]

\* write_all through a handle that File::create returned, from offset 0, into
\* a file that holds old: bytes beyond the new ones stay
Overwritten(old, bytes) == IF Size(bytes) >= Size(old) THEN bytes ELSE Mixed(Size(old))

\* the file a handle is open on after a rename of path p over NoDb.path: the
\* file that was at p is at NoDb.path, the one that was there is unlinked
Moved(ino, tmp, p) ==
    IF ino = "tmp" /\ tmp = p THEN "dest"
    ELSE IF ino = "dest" THEN "gone" ELSE ino

StoreFrame == UNCHANGED <<map, list_map, ser, policy, last_dump, alive, now,
                          pc, cur, dumped, flushed, last_ok, keys>>

\* set, lines 174-176, and dump(), lines 126-135: the value is inserted, the
\* maps are serialized and the temp file is named
StoreSet(i) ==
    /\ stores[i].at = "idle"
    /\ \E key \in keys, v \in Values :
         LET m == stores[i].map
             data == SerializeData(ser, v, TRUE).val
             m1 == Insert(m, key, data)
             same(j) == j # i /\ Dumping(j) /\ stores[j].secs = now
         IN  stores' = [j \in Stores |->
                 IF j = i
                 THEN [at |-> "named", map |-> m1, key |-> key,
                       saved |-> IF key \in DOMAIN m THEN Some(m[key]) ELSE None,
                       tmp |-> TmpName, secs |-> now,
                       data |-> Encrypt(SerializeDb(ser, m1, EmptyMap).val),
                       res |-> None, ino |-> "none",
                       shared |-> stores[i].shared \/ \E o \in Stores : same(o)]
                 ELSE [stores[j] EXCEPT !.shared = @ \/ same(j)]]
    /\ UNCHANGED <<fs, fails>>
    /\ StoreFrame

\* write(&tmp, ..), first half: File::create makes the file, or empties the
\* one that is there
StoreCreate(i) ==
    /\ stores[i].at = "named"
    /\ fs' = Created(fs, stores[i].tmp)
    /\ stores' = [stores EXCEPT ![i].at = "created", ![i].ino = "tmp"]
    /\ UNCHANGED fails
    /\ StoreFrame

\* write(&tmp, ..), second half: write_all, into the file the handle is open
\* on, wherever a rename has moved it
StoreWrite(i) ==
    /\ stores[i].at = "created"
    /\ LET st == stores[i]
           p == IF st.ino = "tmp" THEN st.tmp ELSE DestPath
       IN  fs' = IF st.ino = "gone" THEN fs
                 ELSE Written(fs, p, Overwritten(fs[p], st.data))
    /\ stores' = [stores EXCEPT ![i].at = "written", ![i].ino = "none"]
    /\ UNCHANGED fails
    /\ StoreFrame

\* rename(&tmp, &self.path), and set's match on the result: a temp file that
\* is no longer there makes rename fail, and set undoes its insert
StoreRename(i) ==
    /\ stores[i].at = "written"
    /\ LET st == stores[i]
           c == [key |-> st.key, saved |-> st.saved]
       IN  IF fs[st.tmp] = NoFile
           THEN /\ stores' = [stores EXCEPT ![i].at = "idle",
                                            ![i].map = SetRollback(c, st.map),
                                            ![i].res = Err("NotFound")]
                /\ fs' = fs
           ELSE /\ stores' = [j \in Stores |->
                       IF j = i THEN [st EXCEPT !.at = "idle", !.res = Ok(Unit)]
                       ELSE [stores[j] EXCEPT !.ino = Moved(@, stores[j].tmp, st.tmp)]]
                /\ fs' = Renamed(fs, st.tmp)
    /\ UNCHANGED fails
    /\ StoreFrame

\* the file system fails the call the dump has come to (create, write or
\* rename): what is at the temp name stays, dump returns the error and set
\* undoes its insert
StoreFail(i) ==
    /\ Dumping(i)
    /\ fails < MaxFails
    /\ fails' = fails + 1
    /\ LET st == stores[i]
           c == [key |-> st.key, saved |-> st.saved]
       IN  stores' = [stores EXCEPT ![i].at = "idle", ![i].ino = "none",
                                    ![i].map = SetRollback(c, st.map),
                                    ![i].res = Err("io")]
    /\ UNCHANGED fs
    /\ StoreFrame

\* two instances made by NoDb::new(path, Auto, Json), no file yet
InitStores ==
    /\ Fresh
    /\ policy = Auto
    /\ ser = "Json"
    /\ fs = NoFiles
    /\ keys = {"a"}

NextStores ==
    \/ \E i \in Stores : StoreSet(i)
    \/ \E i \in Stores : StoreCreate(i)
    \/ \E i \in Stores : StoreWrite(i)
    \/ \E i \in Stores : StoreRename(i)
    \/ \E i \in Stores : StoreFail(i)
    \/ Tick

SpecStores == InitStores /\ [][NextStores]_vars

\* ------------------------------------------------------------ properties
\* the operations that change the maps
MutatingOps == {"set", "rem", "lcreate", "lextend", "lrem_list", "lpop", "lrem_value"}

\* a call has run and its result is about to reach the caller
Returned == pc = "done"

\* the content decodes, with the store's format, to exactly these maps
Decodes(content, m, l) == LoadStore(content, ser) = Ok([map |-> m, list_map |-> l])

\* C1: when the flush triggered by a mutating operation fails, both maps are,
\* at the operation's return, what they were immediately before the call.
C1_FailedFlushRestoresBothMaps ==
    Returned /\ cur.op \in MutatingOps /\ cur.failed
        => map = cur.pre_map /\ list_map = cur.pre_list

\* C2: when the flush triggered by set(k, v2) fails, set returns the error and
\* the scalar map is what it was before the call: a key that held v1 still
\* gives get(k) = Some(v1), a key that was absent is absent.
C2_SetRollback ==
    Returned /\ cur.op = "set" /\ cur.failed
        => /\ cur.res.tag = "Err"
           /\ map = cur.pre_map
           /\ cur.key \in DOMAIN cur.pre_map =>
                \E v1 \in Values :
                    /\ cur.pre_map[cur.key] = SerializeData(ser, v1, TRUE).val
                    /\ Get(cur.key) = Some(v1)
           /\ cur.key \notin DOMAIN cur.pre_map => Get(cur.key) = None

\* a set of another value over a key that held one, whose flush failed
C2_Witness ==
    /\ Returned /\ cur.op = "set" /\ cur.failed
    /\ cur.key \in DOMAIN cur.pre_map
    /\ cur.pre_map[cur.key] # cur.arg

\* C3: in a store that started empty, no key is in the scalar map and in the
\* list map at the same time, whatever calls were made and whichever of their
\* flushes failed.
C3_KeyInOneMap == DOMAIN map \cap DOMAIN list_map = {}

\* an lcreate over a scalar key whose flush failed
C3_Witness ==
    /\ Returned /\ cur.op = "lcreate" /\ cur.failed
    /\ cur.key \in DOMAIN cur.pre_map
    /\ cur.key \in DOMAIN list_map

\* C4: before and after every file-system call of a dump, the file at
\* NoDb.path is complete: it is what it was when the dump began (an earlier
\* dump's whole payload, or no file) or the whole payload of this dump; and a
\* dump that failed has left it as it was.
C4_DumpAtomic ==
    Returned /\ cur.flushes > 0
        => /\ \A i \in 1..Len(cur.obs) :
                /\ cur.obs[i].kind \in {"none", "b64"}
                /\ cur.obs[i] \in {cur.obs[1], cur.data}
           /\ file = cur.obs[Len(cur.obs)]
           /\ cur.failed => file = cur.obs[1]
           /\ cur.wrote => file = cur.data

\* a dump that got as far as its rename and failed there, over the file of an
\* earlier dump with another payload
C4_Witness ==
    /\ Returned /\ cur.failed /\ Len(cur.obs) = 3
    /\ cur.obs[1].kind = "b64"
    /\ cur.data.kind = "b64"
    /\ cur.data # cur.obs[1]

\* C5: under policy Never no step creates or modifies the file at NoDb.path
\* or any temp file, and an explicit dump() returns Ok.
C5_NeverWritesNothing ==
    [][policy.kind = "Never"
         => /\ fs' = fs
            /\ pc' = "done" /\ cur'.op = "dump" => cur'.res = Ok(Unit)]_vars

\* an explicit dump() under Never, of maps that the existing file does not hold
C5_Witness ==
    /\ Returned /\ policy.kind = "Never" /\ cur.op = "dump"
    /\ file.kind = "b64"
    /\ ~Decodes(file, map, list_map)

\* C6: under Periodic(d) a mutating call made less than d after the last dump
\* leaves the file as it was; one made d or more after it, if it changed the
\* maps, has performed a dump, and if that dump succeeded the file decodes to
\* the maps.
C6_PeriodicDumps ==
    Returned /\ policy.kind = "Periodic" /\ cur.op \in MutatingOps
        => /\ cur.elapsed < policy.dur => file = cur.pre_file
           /\ /\ cur.elapsed >= policy.dur
              /\ map # cur.pre_map \/ list_map # cur.pre_list
              => /\ cur.flushes >= 1
                 /\ cur.wrote => Decodes(file, map, list_map)

\* the result is a success or the error of a flush
SuccessOrFlushError == cur.res.tag # "Panic" /\ cur.res # Err("encode")

\* C7: under Auto, once a flush has succeeded, whenever a mutating operation
\* has returned with success or with a flush error the file decodes to exactly
\* the scalar map and the list map in memory.
C7_AutoDiskEqualsMemory ==
    /\ Returned /\ policy.kind = "Auto" /\ flushed
    /\ cur.op \in MutatingOps /\ SuccessOrFlushError
    => Decodes(file, map, list_map)

\* C8: under OnCall no call other than an explicit dump() changes the file, and
\* after an explicit dump() that succeeded the file decodes to the maps.
C8_OnCallOnlyExplicitDump ==
    Returned /\ policy.kind = "OnCall"
        => /\ cur.op # "dump" => file = cur.pre_file
           /\ cur.op = "dump" /\ cur.wrote => Decodes(file, map, list_map)

\* C9: teardown begins exactly one dump under Auto and Periodic and none under
\* Never and OnCall; whether or not that dump fails, teardown completes and
\* hands no error on.
C9_TeardownFlush ==
    Returned /\ cur.op = "drop"
        => /\ cur.flushes = IF policy.kind \in {"Auto", "Periodic"} THEN 1 ELSE 0
           /\ cur.res = Ok(Unit)
           /\ ~alive

\* a teardown whose dump failed in the file system
C9_Witness ==
    /\ Returned /\ cur.op = "drop" /\ cur.failed
    /\ cur.res = Ok(Unit)
    /\ Len(cur.obs) > 1

\* C10: load on the path of a dump that succeeded, with the same format,
\* returns a store whose maps are the maps that were dumped.
C10_LoadReturnsDumpedMaps ==
    Returned /\ cur.op = "load" /\ dumped.tag = "Some"
        => /\ cur.res.tag = "Ok"
           /\ map = dumped.val.map
           /\ list_map = dumped.val.list_map

\* C11: for every codec and every pair of maps, serialize_db succeeds and
\* deserialized_db of its result gives the same two maps back, with no entry
\* or list item dropped, emptied or altered.
C11_CodecRoundTrip ==
    LET r == SerializeDb(ser, map, list_map)
    IN  /\ r.tag = "Ok"
        /\ DeserializedDb(ser, r.val) = Ok([map |-> map, list_map |-> list_map])

\* C12: the content a successful dump leaves at NoDb.path is exactly the
\* output of serialize_db on the two maps, with no further encoding.
C12_FileIsRawCodecBytes ==
    Returned /\ cur.wrote
        => file = SerializeDb(ser, dumped.val.map, dumped.val.list_map).val

\* C13: when set(k, v) returns Ok, get(k) returns Some(v), whatever k held
\* before and under every dump policy.
C13_SetThenGet ==
    Returned /\ cur.op = "set" /\ cur.res.tag = "Ok"
        => Get(cur.key).tag = "Some" /\ Get(cur.key).val = cur.input

\* a successful set of another value over a key that held one
C13_Witness ==
    /\ Returned /\ cur.op = "set" /\ cur.res.tag = "Ok"
    /\ cur.key \in DOMAIN cur.pre_map
    /\ cur.pre_map[cur.key] # cur.arg

\* C14: after a successful set(k, v) on a key that held a list, lexists(k) is
\* false and get(k) is Some(v); after a successful lcreate(k) on a key that
\* held a scalar or a list, get(k) is None, lexists(k) is true and llen(k) is 0.
C14_NamespaceSwitch ==
    /\ Returned /\ cur.op = "set" /\ cur.res.tag = "Ok" /\ cur.key \in DOMAIN cur.pre_list
        => /\ ~Lexists(cur.key)
           /\ Get(cur.key).tag = "Some" /\ Get(cur.key).val = cur.input
    /\ Returned /\ cur.op = "lcreate" /\ cur.res.tag = "Ok"
        => /\ Get(cur.key) = None
           /\ Lexists(cur.key)
           /\ Llen(cur.key) = 0

\* a successful set over a key that held a list with items
C14_Witness ==
    /\ Returned /\ cur.op = "set" /\ cur.res.tag = "Ok"
    /\ cur.key \in DOMAIN cur.pre_list
    /\ Len(cur.pre_list[cur.key]) > 0
    /\ cur.wrote

\* the entries under every key but this one are the same in both maps
SameElsewhere(m1, m2, key) ==
    \A k \in AllKeys \ {key} :
        /\ k \in DOMAIN m1 <=> k \in DOMAIN m2
        /\ k \in DOMAIN m1 => m1[k] = m2[k]

\* the key was in the scalar map or in the list map when the call was made
WasPresent == cur.key \in DOMAIN cur.pre_map \/ cur.key \in DOMAIN cur.pre_list

\* C15 as stated: rem(k) returns Ok(true) when k is in either map and
\* Ok(false) when it is in neither; after it exists(k) is false; entries under
\* other keys are unchanged.
C15_RemAsStated ==
    Returned /\ cur.op = "rem"
        => /\ WasPresent => cur.res.tag = "Ok" /\ cur.res.val = TRUE /\ ~Exists(cur.key)
           /\ ~WasPresent => cur.res.tag = "Ok" /\ cur.res.val = FALSE
           /\ SameElsewhere(map, cur.pre_map, cur.key)
           /\ SameElsewhere(list_map, cur.pre_list, cur.key)

\* C15, amended: rem(k) returns Ok(false) when k is in neither map; when k is
\* in a map and no flush of the call fails it returns Ok(true) and exists(k) is
\* false afterwards (so a second rem(k) returns Ok(false)); when a flush of the
\* call fails it returns that error; entries under other keys are unchanged in
\* every case.
C15_Rem ==
    Returned /\ cur.op = "rem"
        => /\ ~WasPresent
                => /\ cur.res.tag = "Ok" /\ cur.res.val = FALSE
                   /\ map = cur.pre_map /\ list_map = cur.pre_list
           /\ WasPresent /\ ~cur.failed
                => cur.res.tag = "Ok" /\ cur.res.val = TRUE /\ ~Exists(cur.key)
           /\ cur.failed => cur.res.tag = "Err"
           /\ SameElsewhere(map, cur.pre_map, cur.key)
           /\ SameElsewhere(list_map, cur.pre_list, cur.key)

\* a successful rem of a key while the other key holds a list with items
C15_Witness ==
    /\ Returned /\ cur.op = "rem" /\ cur.res.tag = "Ok" /\ cur.res.val = TRUE
    /\ cur.wrote
    /\ \E k \in AllKeys \ {cur.key} : k \in DOMAIN list_map /\ Len(list_map[k]) > 0

\* C16: a successful ladd/lextend, on the store or on the handle, appends the
\* given items at the end of the list in the order given: the items already
\* there stay where they were, llen grows by the number of items, and lget at
\* each new position returns the item given.
C16_ExtendAppends ==
    Returned /\ cur.op = "lextend" /\ cur.res.tag = "Some"
        => LET pre == cur.pre_list[cur.key]
               n == Len(cur.input)
           IN  /\ Llen(cur.key) = Len(pre) + n
               /\ \A i \in 1..Len(pre) : list_map[cur.key][i] = pre[i]
               /\ \A i \in 1..n :
                    /\ Lget(cur.key, Len(pre) + i - 1).tag = "Some"
                    /\ Lget(cur.key, Len(pre) + i - 1).val = cur.input[i]

\* a successful append of an item to a list that held another item
C16_Witness ==
    /\ Returned /\ cur.op = "lextend" /\ cur.res.tag = "Some"
    /\ cur.orig_len = 1
    /\ cur.arg[1] # cur.pre_list[cur.key][1]

\* the list is the earlier list without its item at position pos (from 0)
Without(list, pre, pos) ==
    /\ Len(list) = Len(pre) - 1
    /\ \A j \in 1..pos : list[j] = pre[j]
    /\ \A j \in (pos + 1)..(Len(pre) - 1) : list[j] = pre[j + 1]

\* C17: lpop(L, i) with i inside the list: when it returns an item, the items
\* before i are unchanged, every later item has moved down by one, and the
\* value returned is the item that was at i; when the flush fails the list is
\* what it was before the call and nothing is returned.
C17_LpopShifts ==
    /\ Returned /\ cur.op = "lpop"
    /\ cur.key \in DOMAIN cur.pre_list
    /\ cur.pos < Len(cur.pre_list[cur.key])
    => LET pre == cur.pre_list[cur.key]
       IN  /\ cur.res.tag = "Some" =>
                /\ ~cur.failed
                /\ Without(list_map[cur.key], pre, cur.pos)
                /\ \A k \in DOMAIN cur.pre_list \ {cur.key} :
                        list_map[k] = cur.pre_list[k]
                /\ cur.ty = "u8" =>
                     SerializeData(ser, cur.res.val, TRUE).val = pre[cur.pos + 1]
           /\ cur.failed => list_map = cur.pre_list /\ cur.res.tag = "None"

\* a successful lpop of the first of two different items
C17_Witness ==
    /\ Returned /\ cur.op = "lpop" /\ cur.res.tag = "Some"
    /\ cur.pos = 0
    /\ Len(cur.pre_list[cur.key]) = 2
    /\ cur.pre_list[cur.key][1] # cur.pre_list[cur.key][2]

\* C18: whenever lpop returns None the list map is what it was before the
\* call, and whenever lpop has removed an item it returns Some.
C18_NoneMeansUntouched ==
    Returned /\ cur.op = "lpop"
        => /\ cur.res.tag = "None" => list_map = cur.pre_list
           /\ list_map # cur.pre_list => cur.res.tag = "Some"

\* C19: ladd/lextend on a name that is not a list returns None and changes
\* neither map nor the file; on a list, when the flush fails, the list is cut
\* back to its earlier length, so both maps are what they were, and None is
\* returned.
C19_ExtendFailure ==
    Returned /\ cur.op = "lextend"
        => /\ cur.key \notin DOMAIN cur.pre_list
                => /\ cur.res.tag = "None"
                   /\ map = cur.pre_map /\ list_map = cur.pre_list
                   /\ file = cur.pre_file /\ cur.flushes = 0
           /\ cur.key \in DOMAIN cur.pre_list /\ cur.failed
                => /\ cur.res.tag = "None"
                   /\ map = cur.pre_map /\ list_map = cur.pre_list

\* an append to a list with an item, whose dump failed in the file system
C19_Witness ==
    /\ Returned /\ cur.op = "lextend" /\ cur.failed
    /\ cur.orig_len = 1
    /\ Len(cur.obs) > 1

\* C20: lrem_value(L, v), v serializable: with no list under L, or no item
\* whose bytes are v's serialization, it returns Ok(false) and changes neither
\* map nor the file; otherwise, when the flush does not fail, it returns
\* Ok(true) and the list is the earlier list without the first such item, and
\* only that one; when the flush fails it returns the error and the list is
\* what it was.
C20_LremValue ==
    Returned /\ cur.op = "lrem_value" /\ cur.res # Err("encode")
        => LET b == SerializeData(ser, cur.input, TRUE).val
               has == /\ cur.key \in DOMAIN cur.pre_list
                      /\ \E i \in 1..Len(cur.pre_list[cur.key]) :
                            cur.pre_list[cur.key][i] = b
           IN  /\ ~has => /\ cur.res.tag = "Ok" /\ cur.res.val = FALSE
                          /\ map = cur.pre_map /\ list_map = cur.pre_list
                          /\ file = cur.pre_file /\ cur.flushes = 0
               /\ has /\ ~cur.failed =>
                    LET pre == cur.pre_list[cur.key]
                        first == CHOOSE i \in 1..Len(pre) :
                                    pre[i] = b /\ \A j \in 1..(i - 1) : pre[j] # b
                    IN  /\ cur.res.tag = "Ok" /\ cur.res.val = TRUE
                        /\ Without(list_map[cur.key], pre, first - 1)
                        /\ map = cur.pre_map
               /\ has /\ cur.failed =>
                    /\ cur.res.tag = "Err"
                    /\ list_map = cur.pre_list /\ map = cur.pre_map

\* a removal from a list of three whose first and last items both match and
\* whose middle item does not
C20_Witness ==
    /\ Returned /\ cur.op = "lrem_value" /\ cur.res.tag = "Ok" /\ cur.res.val = TRUE
    /\ Len(cur.pre_list[cur.key]) = 3
    /\ cur.pre_list[cur.key][1] = cur.pre_list[cur.key][3]
    /\ cur.pre_list[cur.key][1] # cur.pre_list[cur.key][2]
    /\ cur.pre_list[cur.key][1] = SerializeData(ser, cur.input, TRUE).val
    /\ list_map[cur.key] = SubSeq(cur.pre_list[cur.key], 2, 3)

\* C21: lrem_list(L): when no flush fails it returns the number of items L
\* held before the call (0 when L was not a list), afterwards lexists(L) is
\* false and the scalar map is untouched; when the flush fails it returns the
\* error and the list is back with its items in their order.
C21_LremList ==
    Returned /\ cur.op = "lrem_list"
        => LET n == IF cur.key \in DOMAIN cur.pre_list
                    THEN Len(cur.pre_list[cur.key]) ELSE 0
           IN  /\ map = cur.pre_map
               /\ ~cur.failed =>
                    /\ cur.res.tag = "Ok" /\ cur.res.val = n
                    /\ ~Lexists(cur.key)
                    /\ \A k \in DOMAIN cur.pre_list \ {cur.key} :
                          k \in DOMAIN list_map /\ list_map[k] = cur.pre_list[k]
               /\ cur.failed =>
                    /\ cur.res.tag = "Err"
                    /\ list_map = cur.pre_list

\* a list of two different items was removed, and one whose removal failed to
\* reach the file is back
C21_Witness ==
    /\ Returned /\ cur.op = "lrem_list"
    /\ cur.key \in DOMAIN cur.pre_list
    /\ Len(cur.pre_list[cur.key]) = 2
    /\ cur.pre_list[cur.key][1] # cur.pre_list[cur.key][2]
    /\ \/ cur.res.tag = "Ok" /\ cur.res.val = 2 /\ cur.wrote
       \/ cur.failed /\ Lexists(cur.key)

\* C22, as stated: two dumps in progress for the same destination path have
\* different temp-file names.
C22_DistinctTempNames ==
    \A i \in Stores, j \in Stores :
        i # j /\ Dumping(i) /\ Dumping(j) => stores[i].tmp # stores[j].tmp

\* C22: two dumps in progress for the same destination path have different
\* temp-file names exactly when they took their names in different seconds
\* of the clock; no temp file is the destination itself.
C22_TempNamesBySecond ==
    \A i \in Stores, j \in Stores :
        i # j /\ Dumping(i) /\ Dumping(j)
            => /\ stores[i].tmp # stores[j].tmp <=> stores[i].secs # stores[j].secs
               /\ stores[i].tmp # DestPath

\* two dumps in progress that began in different seconds, the first of which
\* has written its temp file
C22_Witness ==
    /\ Dumping(1) /\ Dumping(2)
    /\ stores[1].secs # stores[2].secs
    /\ stores[1].at = "written" /\ fs[stores[1].tmp] = stores[1].data
    /\ stores[2].at = "written" /\ fs[stores[2].tmp] = stores[2].data
    /\ stores[1].data # stores[2].data

\* C23: no operation panics: every call returns a value to its caller.
C23_NoPanic == cur.res.tag # "Panic" /\ pc # "unwind"

\* the operations that take &self
ReadOps == {"get", "lget", "exists", "lexists", "llen", "get_all", "total_keys"}

\* the bytes are the serialization of a u8, which no String request decodes
StoredU8(b) == \E v \in Values : SerializeData(ser, v, TRUE).val = b

C25_NewTouchesNothing ==
    Returned /\ cur.op = "new"
        => /\ map = EmptyMap /\ list_map = EmptyMap
           /\ last_dump = now
           /\ file = cur.pre_file
           /\ cur.flushes = 0 /\ ~cur.wrote

\* a new on a path where a dump had left a file that holds a key
C25_Witness ==
    /\ Returned /\ cur.op = "new"
    /\ LoadStore(file, ser).tag = "Ok"
    /\ DOMAIN LoadStore(file, ser).val.map # {}

\* the elements of a sequence
Range(s) == {s[i] : i \in 1..Len(s)}

\* C26: in every state, every sequence get_all may return lists the scalar
\* keys and then the list keys, none missing; total_keys is the number of
\* scalar keys plus the number of list keys and the length of get_all;
\* exists(k) holds exactly for the keys in get_all; and what the three calls
\* return is what these say.
C26_KeyAccounting ==
    /\ GetAll # {}
    /\ \A all \in GetAll :
         LET ns == Cardinality(DOMAIN map) IN
         /\ Len(all) = TotalKeys
         /\ TotalKeys = ns + Cardinality(DOMAIN list_map)
         /\ {all[i] : i \in 1..ns} = DOMAIN map
         /\ {all[i] : i \in (ns + 1)..Len(all)} = DOMAIN list_map
         /\ \A k \in AllKeys : Exists(k) <=> k \in Range(all)
         /\ Returned /\ cur.op = "total_keys" => cur.res.val = Len(all)
         /\ Returned /\ cur.op = "exists" => (cur.res.val <=> cur.key \in Range(all))
    /\ Returned /\ cur.op = "get_all" => cur.res.val \in GetAll

\* get_all has returned the key of a scalar and then the key of a list
C26_Witness ==
    /\ Returned /\ cur.op = "get_all"
    /\ Len(cur.res.val) = 2
    /\ cur.res.val[1] \in DOMAIN map
    /\ cur.res.val[2] \in DOMAIN list_map

\* C27: rem(k) with k in both maps. The scalar goes first, with a policy check
\* of its own: when that flush fails the scalar is back, the list entry was
\* never touched and the error is returned. Then the list entry goes, with a
\* second policy check: when that flush fails the list entry is back, the
\* scalar stays removed and the error is returned.
C27_RemTwoPhases ==
    /\ Returned /\ cur.op = "rem"
    /\ cur.key \in DOMAIN cur.pre_map /\ cur.key \in DOMAIN cur.pre_list
    => /\ cur.failed /\ cur.phase = 1 =>
            /\ cur.res.tag = "Err"
            /\ map = cur.pre_map /\ list_map = cur.pre_list
            /\ cur.flushes = 1
       /\ cur.failed /\ cur.phase = 2 =>
            /\ cur.res.tag = "Err"
            /\ map = Remove(cur.pre_map, cur.key) /\ list_map = cur.pre_list
       /\ ~cur.failed =>
            /\ cur.res.tag = "Ok" /\ cur.res.val = TRUE
            /\ cur.phase = 2
            /\ map = Remove(cur.pre_map, cur.key)
            /\ list_map = Remove(cur.pre_list, cur.key)
       /\ policy.kind = "Auto" =>
            cur.flushes = IF cur.failed /\ cur.phase = 1 THEN 1 ELSE 2
       /\ policy.kind = "Periodic" =>
            cur.flushes = IF cur.elapsed >= policy.dur THEN 1 ELSE 0

\* the scalar removal reached the file, then the flush after the list removal
\* failed
C27_Witness ==
    /\ Returned /\ cur.op = "rem"
    /\ cur.key \in DOMAIN cur.pre_map /\ cur.key \in DOMAIN cur.pre_list
    /\ cur.failed /\ cur.phase = 2 /\ cur.flushes = 2
    /\ cur.key \notin DOMAIN map /\ cur.key \in DOMAIN list_map

\* C28: last_dump changes only in a step in which a dump of the instance
\* succeeded under policy Periodic, and then to the time of the dump (a new
\* instance, from new or load, starts with its own last_dump).
C28_LastDumpOnlyPeriodic ==
    [][ last_dump' # last_dump =>
           \/ cur'.op \in {"new", "load"}
           \/ /\ policy.kind = "Periodic"
              /\ cur'.wrote /\ cur'.flushes > 0
              /\ last_dump' = now ]_vars

\* a dump that succeeded under Periodic a tick after the last one
C28_Witness ==
    /\ Returned /\ cur.wrote /\ cur.op \in MutatingOps \cup {"dump"}
    /\ policy.kind = "Periodic" /\ cur.elapsed > 0 /\ last_dump = now

\* C29: when set(k, v) fails to serialize v, it returns the error, no flush is
\* attempted, and both maps, a list under k included, are what they were.
C29_SetEncodeFailure ==
    Returned /\ cur.op = "set" /\ cur.res = Err("encode")
        => /\ map = cur.pre_map /\ list_map = cur.pre_list
           /\ cur.flushes = 0 /\ file = cur.pre_file

\* C30: under Periodic(d), a mutating call whose policy check leads to a
\* flush comes at least d after the last dump that succeeded, whether that
\* was the flush of an earlier mutating call or an explicit dump(); so two
\* successive flushes of mutating calls are at least d apart, and a mutation
\* less than d after a successful dump() does not flush.
C30_PeriodicSpacing ==
    [][ /\ policy.kind = "Periodic"
        /\ pc = "idle" /\ pc' = "done"
        /\ cur'.op \in MutatingOps
        /\ last_ok.tag = "Some"
        => /\ cur'.flushes > 0 => now - last_ok.val >= policy.dur
           /\ now - last_ok.val < policy.dur =>
                cur'.flushes = 0 /\ fs' = fs /\ last_dump' = last_dump ]_vars

\* the second of two flushes by mutating calls, one interval after the first
C30_Witness ==
    /\ Returned /\ cur.op \in MutatingOps /\ cur.wrote
    /\ policy.kind = "Periodic"
    /\ flushed /\ cur.pre_file.kind = "b64"
    /\ cur.elapsed = policy.dur
    /\ now = 1

\* C31: under Auto and Periodic, when the dump of teardown does not fail, the
\* file decodes to the maps the instance held at teardown, however little
\* time has passed since the last dump.
C31_TeardownFileIsMemory ==
    /\ Returned /\ cur.op = "drop"
    /\ policy.kind \in {"Auto", "Periodic"}
    /\ ~cur.failed
    => /\ cur.wrote
       /\ Decodes(file, cur.pre_map, cur.pre_list)

\* some dump has overlapped a dump of the other instance that took its temp
\* name in the same second
Collided == \E i \in Stores : stores[i].shared

\* instance i's dump ends in this step
Ends(i) == stores[i].at # "idle" /\ stores'[i].at = "idle"

\* C32, as stated: however the dumps of two instances on one path interleave,
\* no dump fails because its temp file is gone, and the destination is absent
\* or holds the whole payload of one dump.
C32_DumpsNeverClash ==
    /\ file.kind \in {"none", "b64"}
    /\ \A i \in Stores : stores[i].res # Err("NotFound")

\* C32: as long as no two overlapping dumps took their temp names in the same
\* second: the destination is absent or holds the whole payload of one dump;
\* a dump returns an error only when the file system failed one of its own
\* calls, and then the destination is what it was; a dump that returns Ok has
\* just placed its own payload.
C32_DumpsApart ==
    [][ ~Collided' =>
          /\ file'.kind \in {"none", "b64"}
          /\ \A i \in Stores : Ends(i) =>
                /\ stores'[i].res.tag = "Err" =>
                      /\ stores'[i].res = Err("io") /\ fails' = fails + 1
                      /\ file' = file
                /\ stores'[i].res.tag = "Ok" => file' = stores[i].data ]_vars

\* the second instance began its dump a second after the first and has
\* finished it while the first still holds its written temp file
C32_Witness ==
    /\ ~Collided
    /\ stores[1].at = "written" /\ fs[stores[1].tmp] = stores[1].data
    /\ stores[2].at = "idle" /\ stores[2].res.tag = "Ok"
    /\ stores[2].secs > stores[1].secs
    /\ file = stores[2].data
    /\ stores[1].data # stores[2].data

====
